---- MODULE Spec2Model ----
(***************************************************************************)
(* Model of ruff-format-changes (horiagug/ruff-format-changes).            *)
(*                                                                         *)
(* The part modelled here is internal/git/git.go: parseUnifiedDiff, the    *)
(* line-oriented scan that turns the unified diff of one file into the     *)
(* list of line ranges of the new file that hold added lines.              *)
(*                                                                         *)
(* A text is a sequence of one-character strings, "\n" included; a line is *)
(* a text without "\n".  The scan is one step per line of the input.       *)
(***************************************************************************)
EXTENDS Integers, Sequences, FiniteSets, TLC

\* one call of parseUnifiedDiff: its argument, its locals, what it returns
VARIABLES diff, lines, idx, currentNewLine, changeRangeStart, ranges,
          retRanges, retErr, pc

\* a caller that calls parseUnifiedDiff again with the same argument
VARIABLES callsLeft, firstRet

\* calls of parseUnifiedDiff that run at the same time, one per goroutine
VARIABLES inv

\* one call of Git.GetChangedLineRanges, and the work tree git reports on
VARIABLES worktree, changedFiles, fileIdx, fileChangesList, gitRet, gitPc

\* one call of Ruff.FormatFilesByLineRanges, and the ruff processes it ran
VARIABLES repoRoot, fileChanges, dryRun, fcIdx, lrIdx, invocations, lastRun,
          ruffRet, ruffPc

\* what the ruff processes did to the files: the files they wrote, and by how
\* many lines the file being formatted has grown so far
VARIABLES written, shift

\* the step of runCommand that settles the base branch, and the repository
\* that git reports on
VARIABLES repo, baseFlag, baseBranch, basePc

parserVars == <<diff, lines, idx, currentNewLine, changeRangeStart, ranges,
                retRanges, retErr, pc>>

repeatVars == <<callsLeft, firstRet>>

concVars == <<inv>>

gitVars == <<worktree, changedFiles, fileIdx, fileChangesList, gitRet, gitPc>>

ruffVars == <<repoRoot, fileChanges, dryRun, fcIdx, lrIdx, invocations, lastRun,
              ruffRet, ruffPc, written, shift>>

baseVars == <<repo, baseFlag, baseBranch, basePc>>

vars == <<parserVars, repeatVars, concVars, gitVars, ruffVars, baseVars>>

\* the parts of the program a specification does not run stay as they are
\* before anything is called
IdleParser ==
    /\ diff = <<>>
    /\ lines = <<>>
    /\ idx = 0
    /\ currentNewLine = 0
    /\ changeRangeStart = 0
    /\ ranges = <<>>
    /\ retRanges = <<>>
    /\ retErr = FALSE
    /\ pc = "idle"

IdleRepeat == callsLeft = 0 /\ firstRet = <<>>

IdleConc == inv = <<>>

IdleGit ==
    /\ worktree = <<>>
    /\ changedFiles = <<>>
    /\ fileIdx = 0
    /\ fileChangesList = <<>>
    /\ gitRet = <<>>
    /\ gitPc = "idle"

IdleBase ==
    /\ repo = <<>>
    /\ baseFlag = <<>>
    /\ baseBranch = <<>>
    /\ basePc = "idle"

IdleRuff ==
    /\ repoRoot = <<>>
    /\ lastRun = <<>>
    /\ written = {}
    /\ shift = 0
    /\ fileChanges = <<>>
    /\ dryRun = FALSE
    /\ fcIdx = 0
    /\ lrIdx = 0
    /\ invocations = <<>>
    /\ ruffRet = <<>>
    /\ ruffPc = "idle"

(***************************************************************************)
(* Bounds of the model.                                                    *)
(***************************************************************************)
\* longest input, in lines, of the calls that are made twice
MaxRepeatLines == 3

\* number of calls of parseUnifiedDiff that run at the same time
NumProcs == 2

\* most branches a repository has
MaxBranches == 3

\* longest list of FileChanges handed to FormatFilesByLineRanges
MaxFileChanges == 2

\* number of Python files of the work tree
MaxFiles == 2

\* longest input, in lines, that Init enumerates over the whole line pool
MaxLines == 4

(***************************************************************************)
(* Texts.                                                                  *)
(***************************************************************************)
NL == "\n"

Digit == {"0", "1", "2", "3", "4", "5", "6", "7", "8", "9"}

RECURSIVE JoinLines(_)
\* the text whose lines are ls (Len(ls) >= 1): the lines separated by "\n"
JoinLines(ls) ==
    IF Len(ls) = 1 THEN ls[1]
    ELSE ls[1] \o <<NL>> \o JoinLines(Tail(ls))

RECURSIVE SplitFrom(_, _, _)
SplitFrom(s, p, cur) ==
    IF p > Len(s) THEN <<cur>>
    ELSE IF s[p] = NL THEN <<cur>> \o SplitFrom(s, p + 1, <<>>)
    ELSE SplitFrom(s, p + 1, Append(cur, s[p]))

\* strings.Split(diff, "\n"): always at least one line, "" gives one empty line
Split(s) == SplitFrom(s, 1, <<>>)

(***************************************************************************)
(* The hunk header pattern                                                 *)
(*   ^@@ -\d+(?:,\d+)? \+(\d+)(?:,(\d+))? @@                               *)
(***************************************************************************)
RECURSIVE DigitsEnd(_, _)
\* the position after the longest run of digits of s that starts at p
DigitsEnd(s, p) ==
    IF p <= Len(s) /\ s[p] \in Digit THEN DigitsEnd(s, p + 1) ELSE p

\* s has the literal text lit at position p
HasAt(s, p, lit) ==
    /\ p + Len(lit) - 1 <= Len(s)
    /\ \A k \in 1..Len(lit) : s[p + k - 1] = lit[k]

\* the pattern with the counts required to be absent
OptCountEnd_none(s, p) == p

\* the position after an optional ",\d+" group that starts at p
OptCountEnd(s, p) ==
    IF HasAt(s, p, <<",">>) /\ DigitsEnd(s, p + 1) > p + 1
    THEN DigitsEnd(s, p + 1)
    ELSE p

\* the pattern with the capture group around the old-start field
hunkHeaderRegex_oldStart(line) ==
    LET o1 == 5
        o2 == DigitsEnd(line, o1)
        o3 == OptCountEnd(line, o2)
        n1 == o3 + 2
        n2 == DigitsEnd(line, n1)
        n3 == OptCountEnd(line, n2)
    IN  IF /\ HasAt(line, 1, <<"@", "@", " ", "-">>)
           /\ o2 > o1
           /\ HasAt(line, o3, <<" ", "+">>)
           /\ n2 > n1
           /\ HasAt(line, n3, <<" ", "@", "@">>)
        THEN SubSeq(line, o1, o2 - 1)
        ELSE <<>>

\* the pattern with "$" after the closing "@@"
hunkHeaderRegex_anchored(line) ==
    LET o1 == 5
        o2 == DigitsEnd(line, o1)
        o3 == OptCountEnd(line, o2)
        n1 == o3 + 2
        n2 == DigitsEnd(line, n1)
        n3 == OptCountEnd(line, n2)
    IN  IF /\ HasAt(line, 1, <<"@", "@", " ", "-">>)
           /\ o2 > o1
           /\ HasAt(line, o3, <<" ", "+">>)
           /\ n2 > n1
           /\ HasAt(line, n3, <<" ", "@", "@">>)
           /\ n3 + 2 = Len(line)
        THEN SubSeq(line, n1, n2 - 1)
        ELSE <<>>

\* FindStringSubmatch: <<>> when the line does not match (nil), else the
\* digits captured by group 1, the new-start field
hunkHeaderRegex(line) ==
    LET o1 == 5
        o2 == DigitsEnd(line, o1)
        o3 == OptCountEnd(line, o2)
        n1 == o3 + 2
        n2 == DigitsEnd(line, n1)
        n3 == OptCountEnd(line, n2)
    IN  IF /\ HasAt(line, 1, <<"@", "@", " ", "-">>)
           /\ o2 > o1
           /\ HasAt(line, o3, <<" ", "+">>)
           /\ n2 > n1
           /\ HasAt(line, n3, <<" ", "@", "@">>)
        THEN SubSeq(line, n1, n2 - 1)
        ELSE <<>>

(***************************************************************************)
(* strconv.Atoi on a string of decimal digits.                             *)
(***************************************************************************)
DigitVal(c) ==
    CASE c = "0" -> 0 [] c = "1" -> 1 [] c = "2" -> 2 [] c = "3" -> 3
      [] c = "4" -> 4 [] c = "5" -> 5 [] c = "6" -> 6 [] c = "7" -> 7
      [] c = "8" -> 8 [] c = "9" -> 9

RECURSIVE StripZeros(_)
StripZeros(ds) ==
    IF Len(ds) > 1 /\ ds[1] = "0" THEN StripZeros(Tail(ds)) ELSE ds

\* the decimal digits of the largest int (64 bits): 9223372036854775807
MaxIntDigits ==
    <<"9", "2", "2", "3", "3", "7", "2", "0", "3", "6", "8", "5", "4", "7",
      "7", "5", "8", "0", "7">>

RECURSIVE DigitsGreater(_, _)
\* a > b as numbers, for digit strings of the same length
DigitsGreater(a, b) ==
    IF a = <<>> THEN FALSE
    ELSE IF a[1] # b[1] THEN DigitVal(a[1]) > DigitVal(b[1])
    ELSE DigitsGreater(Tail(a), Tail(b))

\* Atoi that rejects every value of more than one digit
AtoiFails_oneDigit(ds) == Len(StripZeros(ds)) > 1

\* Atoi returns a range error: the value does not fit an int
AtoiFails(ds) ==
    LET t == StripZeros(ds)
    IN  \/ Len(t) > Len(MaxIntDigits)
        \/ Len(t) = Len(MaxIntDigits) /\ DigitsGreater(t, MaxIntDigits)

RECURSIVE AtoiFrom(_, _)
AtoiFrom(ds, acc) ==
    IF ds = <<>> THEN acc
    ELSE AtoiFrom(Tail(ds), acc * 10 + DigitVal(ds[1]))

\* the value Atoi returns when it does not fail
Atoi(ds) == AtoiFrom(ds, 0)

(***************************************************************************)
(* The body of the scan loop, as functions of the scan's locals            *)
(*   s = [currentNewLine, changeRangeStart, ranges].                       *)
(***************************************************************************)
LineRange(start, end) == [Start |-> start, End |-> end]

\* finalizeRange with End: currentNewLine
finalizeRange_endAtCounter(s) ==
    IF s.changeRangeStart > 0
    THEN [s EXCEPT !.ranges = Append(@, LineRange(s.changeRangeStart,
                                                  s.currentNewLine)),
                   !.changeRangeStart = 0]
    ELSE s

\* finalizeRange with End: currentNewLine - 2
finalizeRange_endTwoBack(s) ==
    IF s.changeRangeStart > 0
    THEN [s EXCEPT !.ranges = Append(@, LineRange(s.changeRangeStart,
                                                  s.currentNewLine - 2)),
                   !.changeRangeStart = 0]
    ELSE s

\* finalizeRange that tests changeRangeStart >= 0
finalizeRange_always(s) ==
    IF s.changeRangeStart >= 0
    THEN [s EXCEPT !.ranges = Append(@, LineRange(s.changeRangeStart,
                                                  s.currentNewLine - 1)),
                   !.changeRangeStart = 0]
    ELSE s

\* the closure finalizeRange
finalizeRange(s) ==
    IF s.changeRangeStart > 0
    THEN [s EXCEPT !.ranges = Append(@, LineRange(s.changeRangeStart,
                                                  s.currentNewLine - 1)),
                   !.changeRangeStart = 0]
    ELSE s

\* the header branch with currentNewLine += newStartLine
enterHunk_relative(s, newStartLine) ==
    [finalizeRange(s) EXCEPT !.currentNewLine = @ + newStartLine,
                             !.changeRangeStart = 0]

\* a header line whose new-start was parsed as newStartLine
enterHunk(s, newStartLine) ==
    [finalizeRange(s) EXCEPT !.currentNewLine = newStartLine,
                             !.changeRangeStart = 0]

\* the value the switch in the loop body compares with "+", " " and "-"
prefix(line) == line

\* case "+" without currentNewLine++
addedLine_noAdvance(s) ==
    [s EXCEPT !.changeRangeStart = IF @ = 0 THEN s.currentNewLine ELSE @]

\* case "+"
addedLine(s) ==
    [s EXCEPT !.changeRangeStart = IF @ = 0 THEN s.currentNewLine ELSE @,
              !.currentNewLine = @ + 1]

\* case " " without currentNewLine++
contextLine_noAdvance(s) == finalizeRange(s)

\* case " "
contextLine(s) ==
    [finalizeRange(s) EXCEPT !.currentNewLine = @ + 1]

\* case "-"
deletedLine(s) == finalizeRange(s)

\* the default case taken for a context line
otherLine_context(s) == contextLine(s)

\* default: nothing
otherLine(s) == s

\* a line of length 0 taken for a context line
emptyLine_context(s) == contextLine(s)

\* len(line) == 0: the switch is skipped
emptyLine(s) == s

\* the scan without the test of currentNewLine
outsideHunk_never(newLine) == FALSE

\* if currentNewLine == 0 { continue }
outsideHunk(newLine) == newLine = 0

\* one line that is not a hunk header
bodyLine(s, line) ==
    IF outsideHunk(s.currentNewLine) THEN s
    ELSE IF Len(line) > 0
    THEN CASE prefix(line) = <<"+">> -> addedLine(s)
           [] prefix(line) = <<" ">> -> contextLine(s)
           [] prefix(line) = <<"-">> -> deletedLine(s)
           [] OTHER -> otherLine(s)
    ELSE emptyLine(s)

\* the locals declared outside the function: a call starts with the values
\* the previous call left
initialScan_kept ==
    [currentNewLine |-> currentNewLine, changeRangeStart |-> changeRangeStart,
     ranges |-> ranges]

\* the locals before the first line is read
initialScan == [currentNewLine |-> 0, changeRangeStart |-> 0, ranges |-> <<>>]

RECURSIVE scanFrom(_, _, _)
\* the loop over ls from line k on, and the return statement it ends in
scanFrom(ls, k, s) ==
    IF k > Len(ls) THEN [ranges |-> finalizeRange(s).ranges, err |-> FALSE]
    ELSE LET match == hunkHeaderRegex(ls[k])
         IN  IF match # <<>>
             THEN IF AtoiFails(match) THEN [ranges |-> <<>>, err |-> TRUE]
                  ELSE scanFrom(ls, k + 1, enterHunk(s, Atoi(match)))
             ELSE scanFrom(ls, k + 1, bodyLine(s, ls[k]))

\* parseUnifiedDiff as a function of its argument
parseUnifiedDiff(text) == scanFrom(Split(text), 1, initialScan)

(***************************************************************************)
(* Inputs.                                                                 *)
(***************************************************************************)
\* "@@ -<old> +<new> @@<tail>"
HunkHeader(old, new, tail) ==
    <<"@", "@", " ", "-">> \o old \o <<" ", "+">> \o new
        \o <<" ", "@", "@">> \o tail

Plus == <<"+">>
Space == <<" ">>
Minus == <<"-">>
Empty == <<>>
PlusText == <<"+", "x">>
SpaceText == <<" ", "x">>
MinusText == <<"-", "x">>
NoNewline == <<"\\", " ", "N">>

\* @@ -1,2 +0,0 @@
Header0 == HunkHeader(<<"1", ",", "2">>, <<"0", ",", "0">>, <<>>)
\* @@ -1,3 +1,2 @@
Header1 == HunkHeader(<<"1", ",", "3">>, <<"1", ",", "2">>, <<>>)
\* @@ -3 +3 @@ x
Header3 == HunkHeader(<<"3">>, <<"3">>, <<" ", "x">>)
\* @@ -1 +99999999999999999999 @@
HeaderHuge ==
    HunkHeader(<<"1">>, <<"9", "9", "9", "9", "9", "9", "9", "9", "9", "9",
                          "9", "9", "9", "9", "9", "9", "9", "9", "9", "9">>,
               <<>>)

LinePool == {Plus, Space, Minus, Empty, PlusText, SpaceText, MinusText,
             NoNewline, Header0, Header1, Header3, HeaderHuge}

\* the diffs of the tests of parseUnifiedDiff
\* @@ -1,0 +1,1 @@ and @@ -1,0 +1,3 @@
Header_1_0_1_1 == HunkHeader(<<"1", ",", "0">>, <<"1", ",", "1">>, <<>>)
Header_1_0_1_3 == HunkHeader(<<"1", ",", "0">>, <<"1", ",", "3">>, <<>>)
\* @@ -1,5 +1,5 @@
Header_1_5_1_5 == HunkHeader(<<"1", ",", "5">>, <<"1", ",", "5">>, <<>>)
\* @@ -1,3 +1,4 @@ and @@ -10,4 +11,5 @@
Header_1_3_1_4 == HunkHeader(<<"1", ",", "3">>, <<"1", ",", "4">>, <<>>)
Header_10_4_11_5 ==
    HunkHeader(<<"1", "0", ",", "4">>, <<"1", "1", ",", "5">>, <<>>)
\* @@ -5,4 +5,5 @@
Header_5_4_5_5 == HunkHeader(<<"5", ",", "4">>, <<"5", ",", "5">>, <<>>)
\* @@ -8,6 +8,7 @@
Header_8_6_8_7 == HunkHeader(<<"8", ",", "6">>, <<"8", ",", "7">>, <<>>)
\* @@ -1 +1,2 @@
Header_1_1_2 == HunkHeader(<<"1">>, <<"1", ",", "2">>, <<>>)
\* @@ -1,2 +1,4 @@
Header_1_2_1_4 == HunkHeader(<<"1", ",", "2">>, <<"1", ",", "4">>, <<>>)

DiffEmpty == <<>>
DiffSingleAddedLine == JoinLines(<<Header_1_0_1_1, Plus>>)
DiffMultipleAddedLines == JoinLines(<<Header_1_0_1_3, Plus, Plus, Plus>>)
DiffAddedLinesWithContext ==
    JoinLines(<<Header_1_5_1_5, Space, Plus, Space, Plus, Space>>)
DiffDeletedLines == JoinLines(<<Header1, <<" ", "-">>, Plus, Space>>)
DiffMultipleHunks ==
    JoinLines(<<Header_1_3_1_4, Space, Plus, Space,
                Header_10_4_11_5, Space, Plus, Plus, Space>>)
DiffConsecutiveAddedLines ==
    JoinLines(<<Header_5_4_5_5, Space, Plus, Plus, Space>>)
DiffNoAddedLines == JoinLines(<<Header1, <<" ", "-">>, Minus>>)
DiffComplexHunk ==
    JoinLines(<<Header_8_6_8_7, Minus, Plus, Space, Plus, Plus, Minus>>)
DiffHunkWithoutLineCount == JoinLines(<<Header_1_1_2, Space, Plus>>)
DiffEndingWithAddedLines ==
    JoinLines(<<Header_1_2_1_4, Space, Space, Plus, Plus>>)
\* header @@ -1,3 +1,2 @@ with the four body lines " ", "-", "+", " "
DiffContextDeletedAdded == JoinLines(<<Header1, Space, Minus, Plus, Space>>)

\* @@ -1 +9223372036854775808 @@: the new-start is the largest int plus 1
HeaderIntMaxPlus1 ==
    HunkHeader(<<"1">>, <<"9", "2", "2", "3", "3", "7", "2", "0", "3", "6", "8",
                          "5", "4", "7", "7", "5", "8", "0", "8">>, <<>>)
\* a hunk with an added line, then a header whose new-start does not fit
DiffIntMaxPlus1 == JoinLines(<<Header1, Plus, HeaderIntMaxPlus1, Plus>>)

\* @@ -1 +2 @@
Header_1_2 == HunkHeader(<<"1">>, <<"2">>, <<>>)
\* two hunks that touch: the second starts at the line after the block that
\* is open when its header is read
DiffTouchingHunks == JoinLines(<<Header1, Plus, Header_1_2, Plus>>)

TestDiffs ==
    {DiffEmpty, DiffSingleAddedLine, DiffMultipleAddedLines,
     DiffAddedLinesWithContext, DiffDeletedLines, DiffMultipleHunks,
     DiffConsecutiveAddedLines, DiffNoAddedLines, DiffComplexHunk,
     DiffHunkWithoutLineCount, DiffEndingWithAddedLines,
     DiffContextDeletedAdded, DiffIntMaxPlus1, DiffTouchingHunks}

LineSeqs == UNION {[1..n -> LinePool] : n \in 1..MaxLines}

Inputs == {JoinLines(ls) : ls \in LineSeqs} \cup TestDiffs

(***************************************************************************)
(* The scan as a state machine: one call of parseUnifiedDiff.              *)
(***************************************************************************)
\* a call of parseUnifiedDiff(text) is entered
EnterParser(text) ==
    /\ diff = text
    /\ lines = <<>>
    /\ idx = 0
    /\ currentNewLine = 0
    /\ changeRangeStart = 0
    /\ ranges = <<>>
    /\ retRanges = <<>>
    /\ retErr = FALSE
    /\ pc = "entry"

Init ==
    /\ \E text \in Inputs : EnterParser(text)
    /\ IdleRepeat
    /\ IdleConc
    /\ IdleGit
    /\ IdleRuff
    /\ IdleBase

Locals ==
    [currentNewLine |-> currentNewLine, changeRangeStart |-> changeRangeStart,
     ranges |-> ranges]

SetLocals(s) ==
    /\ currentNewLine' = s.currentNewLine
    /\ changeRangeStart' = s.changeRangeStart
    /\ ranges' = s.ranges

InLoop == pc = "loop" /\ idx <= Len(lines)

\* the line the loop is at is a body line read inside a hunk
InHunk ==
    /\ InLoop
    /\ hunkHeaderRegex(lines[idx]) = <<>>
    /\ ~outsideHunk(currentNewLine)

\* lines := strings.Split(diff, "\n"); ranges := []LineRange{}
SplitLines ==
    /\ UNCHANGED <<repeatVars, concVars, gitVars, ruffVars, baseVars>>
    /\ pc = "entry"
    /\ lines' = Split(diff)
    /\ idx' = 1
    /\ SetLocals(initialScan)
    /\ pc' = "loop"
    /\ UNCHANGED <<diff, retRanges, retErr>>

\* a hunk header whose new-start Atoi accepts
HunkHeaderLine ==
    /\ UNCHANGED <<repeatVars, concVars, gitVars, ruffVars, baseVars>>
    /\ InLoop
    /\ LET match == hunkHeaderRegex(lines[idx])
       IN  /\ match # <<>>
           /\ ~AtoiFails(match)
           /\ SetLocals(enterHunk(Locals, Atoi(match)))
    /\ idx' = idx + 1
    /\ UNCHANGED <<diff, lines, retRanges, retErr, pc>>

\* a hunk header whose new-start Atoi rejects: return nil, err
HunkHeaderError ==
    /\ UNCHANGED <<repeatVars, concVars, gitVars, ruffVars, baseVars>>
    /\ InLoop
    /\ LET match == hunkHeaderRegex(lines[idx])
       IN  /\ match # <<>>
           /\ AtoiFails(match)
           /\ SetLocals(finalizeRange(Locals))
    /\ retRanges' = <<>>
    /\ retErr' = TRUE
    /\ pc' = "done"
    /\ UNCHANGED <<diff, lines, idx>>

\* if currentNewLine == 0 { continue }
OutsideHunkLine ==
    /\ UNCHANGED <<repeatVars, concVars, gitVars, ruffVars, baseVars>>
    /\ InLoop
    /\ hunkHeaderRegex(lines[idx]) = <<>>
    /\ outsideHunk(currentNewLine)
    /\ idx' = idx + 1
    /\ UNCHANGED <<diff, lines, currentNewLine, changeRangeStart, ranges,
                   retRanges, retErr, pc>>

AddedLine ==
    /\ UNCHANGED <<repeatVars, concVars, gitVars, ruffVars, baseVars>>
    /\ InHunk
    /\ Len(lines[idx]) > 0
    /\ prefix(lines[idx]) = <<"+">>
    /\ SetLocals(addedLine(Locals))
    /\ idx' = idx + 1
    /\ UNCHANGED <<diff, lines, retRanges, retErr, pc>>

ContextLine ==
    /\ UNCHANGED <<repeatVars, concVars, gitVars, ruffVars, baseVars>>
    /\ InHunk
    /\ Len(lines[idx]) > 0
    /\ prefix(lines[idx]) = <<" ">>
    /\ SetLocals(contextLine(Locals))
    /\ idx' = idx + 1
    /\ UNCHANGED <<diff, lines, retRanges, retErr, pc>>

DeletedLine ==
    /\ UNCHANGED <<repeatVars, concVars, gitVars, ruffVars, baseVars>>
    /\ InHunk
    /\ Len(lines[idx]) > 0
    /\ prefix(lines[idx]) = <<"-">>
    /\ SetLocals(deletedLine(Locals))
    /\ idx' = idx + 1
    /\ UNCHANGED <<diff, lines, retRanges, retErr, pc>>

\* the default case of the switch
OtherLine ==
    /\ UNCHANGED <<repeatVars, concVars, gitVars, ruffVars, baseVars>>
    /\ InHunk
    /\ Len(lines[idx]) > 0
    /\ prefix(lines[idx]) \notin {<<"+">>, <<" ">>, <<"-">>}
    /\ SetLocals(otherLine(Locals))
    /\ idx' = idx + 1
    /\ UNCHANGED <<diff, lines, retRanges, retErr, pc>>

\* len(line) == 0
EmptyLine ==
    /\ UNCHANGED <<repeatVars, concVars, gitVars, ruffVars, baseVars>>
    /\ InHunk
    /\ Len(lines[idx]) = 0
    /\ SetLocals(emptyLine(Locals))
    /\ idx' = idx + 1
    /\ UNCHANGED <<diff, lines, retRanges, retErr, pc>>

\* after the loop: finalizeRange(); return ranges, nil
ReturnRanges ==
    /\ UNCHANGED <<repeatVars, concVars, gitVars, ruffVars, baseVars>>
    /\ pc = "loop"
    /\ idx > Len(lines)
    /\ SetLocals(finalizeRange(Locals))
    /\ retRanges' = finalizeRange(Locals).ranges
    /\ retErr' = FALSE
    /\ pc' = "done"
    /\ UNCHANGED <<diff, lines, idx>>

Next ==
    \/ SplitLines
    \/ HunkHeaderLine
    \/ HunkHeaderError
    \/ OutsideHunkLine
    \/ AddedLine
    \/ ContextLine
    \/ DeletedLine
    \/ OtherLine
    \/ EmptyLine
    \/ ReturnRanges

Spec == Init /\ [][Next]_vars

TypeOK ==
    /\ pc \in {"idle", "entry", "loop", "done"}
    /\ idx \in 0..(Len(lines) + 1)
    /\ currentNewLine \in Nat
    /\ changeRangeStart \in Nat
    /\ retErr \in BOOLEAN

(***************************************************************************)
(* The diff as the claims read it: a line inside a hunk is an added, a     *)
(* context or a deleted line by its first character.                       *)
(***************************************************************************)
Done == pc = "done"

FirstChar(line) == IF Len(line) > 0 THEN line[1] ELSE ""

IsHeader(line) == hunkHeaderRegex(line) # <<>>

HeaderIdx(ls) == {k \in 1..Len(ls) : IsHeader(ls[k])}

\* the header of the hunk line k lies in (0: line k is before every header)
HunkOf(ls, k) ==
    LET before == {h \in HeaderIdx(ls) : h < k}
    IN  IF before = {} THEN 0 ELSE CHOOSE h \in before : \A g \in before : g <= h

\* the body lines of hunks
BodyIdx(ls) == {k \in 1..Len(ls) : ~IsHeader(ls[k]) /\ HunkOf(ls, k) # 0}

AddedIdx(ls) == {k \in BodyIdx(ls) : FirstChar(ls[k]) = "+"}

NewStart(ls, h) == Atoi(hunkHeaderRegex(ls[h]))

\* the line number, in the new file, of body line k
NewLineNo(ls, k) ==
    LET h == HunkOf(ls, k)
    IN  NewStart(ls, h)
          + Cardinality({m \in (h + 1)..(k - 1) : FirstChar(ls[m]) \in {"+", " "}})

\* added line k starts a run of consecutive added lines
StartsRun(ls, k) == k \in AddedIdx(ls) /\ (k - 1) \notin AddedIdx(ls)

InRange(r, n) == r.Start <= n /\ n <= r.End

\* a diff as a diff tool writes it: headers with a new-start of 1 or more
\* that Atoi accepts, and hunk body lines that begin with "+", " " or "-"
PlainDiff(ls) ==
    /\ \A h \in HeaderIdx(ls) :
          ~AtoiFails(hunkHeaderRegex(ls[h])) /\ NewStart(ls, h) >= 1
    /\ \A k \in BodyIdx(ls) : FirstChar(ls[k]) \in {"+", " ", "-"}

\* each header's new-start is at least the previous header's new-start plus
\* the number of lines between the two headers
HeadersAscend(ls) ==
    \A h \in HeaderIdx(ls) :
        LET g == HunkOf(ls, h)
        IN  g # 0 => NewStart(ls, h) >= NewStart(ls, g) + (h - g - 1)

\* C1 (as claimed): for every diff whose hunk body lines begin with "+",
\* " " or "-" (and whose hunks are in file order), the returned ranges are exactly the maximal runs of
\* consecutive added lines in new-file line numbers: every added line's
\* number lies in exactly one range, every number inside a range is the
\* number of an added line, and there is one range per run.
C1_RangesAreAddedRuns ==
    (Done /\ PlainDiff(lines) /\ HeadersAscend(lines)) =>
        /\ ~retErr
        /\ \A k \in AddedIdx(lines) :
              Cardinality({j \in 1..Len(retRanges) :
                             InRange(retRanges[j], NewLineNo(lines, k))}) = 1
        /\ \A j \in 1..Len(retRanges) :
              \A n \in retRanges[j].Start..retRanges[j].End :
                 \E k \in AddedIdx(lines) : NewLineNo(lines, k) = n
        /\ Len(retRanges) = Cardinality({k \in AddedIdx(lines) : StartsRun(lines, k)})

\* C2 (as claimed): inside a hunk a line is classified by its first
\* character only: "+" starts or extends a block and advances the new-line
\* counter by 1, " " is a context line (closes the block, advances the
\* counter), "-" is a deleted line (closes the block, counter unchanged).
C2_FirstCharStep ==
    /\ FirstChar(lines[idx]) = "+" =>
          /\ currentNewLine' = currentNewLine + 1
          /\ changeRangeStart' =
                IF changeRangeStart = 0 THEN currentNewLine ELSE changeRangeStart
          /\ ranges' = ranges
    /\ FirstChar(lines[idx]) = " " =>
          /\ currentNewLine' = currentNewLine + 1
          /\ changeRangeStart' = 0
    /\ FirstChar(lines[idx]) = "-" =>
          /\ currentNewLine' = currentNewLine
          /\ changeRangeStart' = 0

C2_ClassifiedByFirstChar == [][InHunk => C2_FirstCharStep]_vars

(***************************************************************************)
(* Order and shape of the returned ranges.                                 *)
(***************************************************************************)
RECURSIVE scanPrefix(_, _)
\* the locals of the scan after the first n lines of ls (no header of which
\* Atoi rejects)
scanPrefix(ls, n) ==
    IF n = 0 THEN initialScan
    ELSE LET s == scanPrefix(ls, n - 1)
             match == hunkHeaderRegex(ls[n])
         IN  IF match # <<>> THEN enterHunk(s, Atoi(match))
             ELSE bodyLine(s, ls[n])

\* the number of header lines read before range j of the result was opened
HeadersBeforeRange(ls, j) ==
    Cardinality({h \in HeaderIdx(ls) : Len(scanPrefix(ls, h).ranges) < j})

SameHunk(ls, j) == HeadersBeforeRange(ls, j) = HeadersBeforeRange(ls, j + 1)

\* C3 (as claimed): for any two consecutive returned ranges r, r',
\* r.end < r'.start - 1.
C3_GapBetweenRanges ==
    Done =>
        \A j \in 1..(Len(retRanges) - 1) :
            retRanges[j].End < retRanges[j + 1].Start - 1

\* C3 (amended): two consecutive returned ranges that come from the same
\* hunk satisfy r.end < r'.start; they may be adjacent (r.end = r'.start - 1)
\* when only deleted lines separate the two blocks.
C3_NoOverlapWithinHunk ==
    (Done /\ ~retErr) =>
        \A j \in 1..(Len(retRanges) - 1) :
            SameHunk(lines, j) => retRanges[j].End < retRanges[j + 1].Start

\* C3 witness: one hunk returned two adjacent ranges, split by a deleted line
C3_Witness ==
    /\ Done
    /\ lines = <<Header1, Plus, Minus, Plus>>
    /\ retRanges = <<LineRange(1, 1), LineRange(2, 2)>>

StrictlyIncreasing(rs) ==
    \A j \in 1..(Len(rs) - 1) :
        rs[j].Start < rs[j + 1].Start /\ rs[j].End < rs[j + 1].Start

\* C4 (as claimed): for every input, also with several hunks whose headers
\* carry arbitrary new-start values, the returned ranges are in strictly
\* increasing order of start and do not overlap.
C4_AlwaysIncreasing == (Done /\ ~retErr) => StrictlyIncreasing(retRanges)

\* C4 (amended): the returned ranges are in strictly increasing order of
\* start and do not overlap for every input in which each hunk header's
\* new-start is at least the previous header's new-start plus the number of
\* lines between the two headers.
C4_IncreasingWhenHeadersAscend ==
    (Done /\ ~retErr /\ HeadersAscend(lines)) => StrictlyIncreasing(retRanges)

\* C4 witness: two hunks in ascending order, one range from each
C4_Witness ==
    /\ Done
    /\ lines = <<Header1, Plus, Header3, Plus>>
    /\ retRanges = <<LineRange(1, 1), LineRange(3, 3)>>

\* C5: every range ever emitted satisfies 1 <= start <= end, also when a
\* header's new-start is 0.
C5_RangeWellFormed ==
    /\ \A j \in 1..Len(ranges) : 1 <= ranges[j].Start /\ ranges[j].Start <= ranges[j].End
    /\ \A j \in 1..Len(retRanges) :
          1 <= retRanges[j].Start /\ retRanges[j].Start <= retRanges[j].End

\* C5 witness: added lines follow a header with new-start 0 and a later
\* header, and a range was returned
C5_Witness ==
    /\ Done
    /\ lines = <<Header0, Plus, Header1, Plus>>
    /\ retRanges = <<LineRange(1, 1)>>

ContextThenAdded(ls, j) ==
    /\ HeaderIdx(ls) = {1}
    /\ j \in 0..(Len(ls) - 2)
    /\ \A m \in 2..(j + 1) : FirstChar(ls[m]) = " "
    /\ \A m \in (j + 2)..Len(ls) : FirstChar(ls[m]) = "+"

\* C7 (as claimed): in one hunk with new-start n, k >= 1 consecutive added
\* lines preceded by j context lines and no other added lines give exactly
\* one range {n+j, n+j+k-1}.
C7_OneRunOneRange ==
    (Done /\ PlainDiff(lines)) =>
        \A j \in 0..(Len(lines) - 2) :
            ContextThenAdded(lines, j) =>
                /\ ~retErr
                /\ retRanges = <<LineRange(NewStart(lines, 1) + j,
                                           NewStart(lines, 1) + Len(lines) - 2)>>

\* C8 (as claimed): two added lines of the same hunk with a context line
\* between them end up in two different ranges, and the diff with header
\* "@@ -1,5 +1,5 @@" and body " ", "+", " ", "+", " " gives [{2,2},{4,4}].
C8_ContextSplitsBlocks ==
    (Done /\ PlainDiff(lines)) =>
        /\ \A a, b \in AddedIdx(lines) :
              (/\ a < b
               /\ HunkOf(lines, a) = HunkOf(lines, b)
               /\ \E c \in (a + 1)..(b - 1) : FirstChar(lines[c]) = " ")
              => /\ \E j \in 1..Len(retRanges) :
                       InRange(retRanges[j], NewLineNo(lines, a))
                 /\ \E j \in 1..Len(retRanges) :
                       InRange(retRanges[j], NewLineNo(lines, b))
                 /\ ~\E j \in 1..Len(retRanges) :
                       /\ InRange(retRanges[j], NewLineNo(lines, a))
                       /\ InRange(retRanges[j], NewLineNo(lines, b))
        /\ diff = DiffAddedLinesWithContext =>
              retRanges = <<LineRange(2, 2), LineRange(4, 4)>>

\* what one call returns for the lines ls
RangesOf(ls) == scanFrom(ls, 1, initialScan).ranges

\* C9: with several hunks, the ranges of each hunk are numbered from that
\* hunk's own new-start and do not depend on the counter reached at the end
\* of the previous hunk: cutting the input before any header, the call
\* returns the ranges of the first part followed by the ranges the second
\* part gives on its own; hunks at new lines 1 and 11 with bodies
\* " ", "+", " " and " ", "+", "+", " " give [{2,2},{12,13}].
C9_HunksNumberedIndependently ==
    (Done /\ ~retErr) =>
        /\ \A h \in HeaderIdx(lines) :
              h > 1 =>
                 retRanges = RangesOf(SubSeq(lines, 1, h - 1))
                               \o RangesOf(SubSeq(lines, h, Len(lines)))
        /\ diff = DiffMultipleHunks =>
              retRanges = <<LineRange(2, 2), LineRange(12, 13)>>

\* C9 witness: the two-hunk diff of the test has been parsed
C9_Witness ==
    /\ Done
    /\ diff = DiffMultipleHunks
    /\ Cardinality(HeaderIdx(lines)) = 2
    /\ Len(retRanges) = 2

\* no line inside a hunk begins with "+"
NoAddedLine(ls) == AddedIdx(ls) = {}

\* C10 (as claimed): for every diff without an added line (only headers,
\* context lines, deleted lines and lines outside hunks) the call returns an
\* empty sequence and no error.
C10_NoAddedNoRangesNoError ==
    (Done /\ NoAddedLine(lines)) => retRanges = <<>> /\ ~retErr

\* C10 (amended): for every diff without an added line the call returns an
\* empty sequence; it returns no error unless a header's new-start does not
\* fit an integer, and an error in that case.
C10_NoAddedNoRanges ==
    (Done /\ NoAddedLine(lines)) =>
        /\ retRanges = <<>>
        /\ retErr <=> \E h \in HeaderIdx(lines) : AtoiFails(hunkHeaderRegex(lines[h]))

\* C10 witness: a hunk with context and deleted lines only has been parsed
C10_Witness ==
    /\ Done
    /\ lines = <<Header1, SpaceText, Minus, Space>>
    /\ NoAddedLine(lines)
    /\ retRanges = <<>>
    /\ ~retErr

(***************************************************************************)
(* Empty input, header forms and the error of the call.                    *)
(***************************************************************************)
\* C11: for the empty input string the call returns an empty (zero-length)
\* sequence of ranges and no error.
C11_EmptyInputEmptyResult ==
    (Done /\ diff = DiffEmpty) => Len(retRanges) = 0 /\ ~retErr

\* C11 witness: the call on the empty string has returned; the input was
\* read as one zero-length line
C11_Witness ==
    /\ Done
    /\ diff = DiffEmpty
    /\ lines = <<Empty>>

\* the header lines with new-start field new, with and without an old-line
\* count and a new-line count
HeaderForms(new) ==
    {HunkHeader(old, new \o cnt, <<>>) :
        old \in {<<"1">>, <<"1", ",", "3">>}, cnt \in {<<>>, <<",", "2">>}}

\* C12: a hunk header that omits the old-line count or the new-line count
\* is recognized as a header and gives the same ranges as the header written
\* with counts: rewriting any header of the input in any of the four forms
\* (with the same new-start) leaves the returned ranges unchanged, and
\* "@@ -1 +1,2 @@" followed by " ", "+" gives [{2,2}].
C12_CountsOptional ==
    (Done /\ ~retErr) =>
        /\ \A h \in HeaderIdx(lines) :
              \A form \in HeaderForms(hunkHeaderRegex(lines[h])) :
                 /\ IsHeader(form)
                 /\ RangesOf([lines EXCEPT ![h] = form]) = retRanges
        /\ diff = DiffHunkWithoutLineCount => retRanges = <<LineRange(2, 2)>>

\* C12 witness: the diff whose header has no old-line count has been parsed
C12_Witness ==
    /\ Done
    /\ diff = DiffHunkWithoutLineCount
    /\ lines[1] = Header_1_1_2
    /\ retRanges = <<LineRange(2, 2)>>

\* header lines whose new-start field does not fit an int
OverflowHeaders == {HeaderHuge, HeaderIntMaxPlus1}

C14_ErrorOnlyFromNewStart ==
    (Done /\ retErr) =>
        /\ idx \in 1..Len(lines)
        /\ lines[idx] \in OverflowHeaders
        /\ \A k \in 1..(idx - 1) : lines[k] \notin OverflowHeaders

\* C14 witness: a call on headers without counts and with a suffix, an
\* empty line and an unrecognized line returned without error
C14_Witness ==
    /\ Done
    /\ lines = <<NoNewline, Header3, Empty, NoNewline>>
    /\ ~retErr
    /\ retRanges = <<>>

(***************************************************************************)
(* The same text parsed twice: a caller calls parseUnifiedDiff, keeps what *)
(* it returned and calls it again with the same argument.                  *)
(***************************************************************************)
RepeatInputs ==
    {JoinLines(ls) : ls \in UNION {[1..n -> LinePool] : n \in 1..MaxRepeatLines}}
        \cup TestDiffs

InitRepeat ==
    /\ \E text \in RepeatInputs : EnterParser(text)
    /\ callsLeft = 1
    /\ firstRet = <<>>
    /\ IdleConc
    /\ IdleGit
    /\ IdleRuff
    /\ IdleBase

\* the second call: a new activation of the function, with the same diff
CallAgain ==
    /\ pc = "done"
    /\ callsLeft > 0
    /\ callsLeft' = callsLeft - 1
    /\ firstRet' = <<[ranges |-> retRanges, err |-> retErr]>>
    /\ retRanges' = <<>>
    /\ retErr' = FALSE
    /\ pc' = "entry"
    /\ UNCHANGED <<diff, lines, idx, currentNewLine, changeRangeStart, ranges>>
    /\ UNCHANGED <<concVars, gitVars, ruffVars, baseVars>>

NextRepeat ==
    \/ SplitLines
    \/ HunkHeaderLine
    \/ HunkHeaderError
    \/ OutsideHunkLine
    \/ AddedLine
    \/ ContextLine
    \/ DeletedLine
    \/ OtherLine
    \/ EmptyLine
    \/ ReturnRanges
    \/ CallAgain

SpecRepeat == InitRepeat /\ [][NextRepeat]_vars

\* C17: parsing the same diff text twice gives identical results: the
\* second call returns the same ranges and the same error as the first, so
\* nothing the first call left behind reaches the second.
C17_SecondCallSameResult ==
    (Done /\ firstRet # <<>>) =>
        firstRet[1] = [ranges |-> retRanges, err |-> retErr]

\* C17 witness: the second call on a two-hunk diff has returned ranges
C17_Witness ==
    /\ Done
    /\ firstRet # <<>>
    /\ callsLeft = 0
    /\ diff = DiffMultipleHunks
    /\ retRanges = <<LineRange(2, 2), LineRange(12, 13)>>

(***************************************************************************)
(* Calls of parseUnifiedDiff on different diffs that run at the same time. *)
(* inv[p] is the activation of call p: its argument, its locals and what   *)
(* it returns.  A step of the specification is one step of one call.       *)
(***************************************************************************)
Procs == 1..NumProcs

ConcInputs ==
    {DiffEmpty, DiffSingleAddedLine, DiffMultipleHunks, DiffComplexHunk,
     DiffIntMaxPlus1}

Activation(text) ==
    [diff |-> text, lines |-> <<>>, idx |-> 0, currentNewLine |-> 0,
     changeRangeStart |-> 0, ranges |-> <<>>, retRanges |-> <<>>,
     retErr |-> FALSE, pc |-> "entry"]

\* the locals with one variable for all calls: every call reads call 1's
scanLocals_shared(invs, p) ==
    [currentNewLine |-> invs[1].currentNewLine,
     changeRangeStart |-> invs[1].changeRangeStart,
     ranges |-> invs[1].ranges]

\* the locals call p reads: those declared in its own activation
scanLocals(invs, p) ==
    [currentNewLine |-> invs[p].currentNewLine,
     changeRangeStart |-> invs[p].changeRangeStart,
     ranges |-> invs[p].ranges]

\* activation a with its locals set to s
withLocals(a, s) ==
    [a EXCEPT !.currentNewLine = s.currentNewLine,
              !.changeRangeStart = s.changeRangeStart,
              !.ranges = s.ranges]

InitConc ==
    /\ inv \in [Procs -> {Activation(text) : text \in ConcInputs}]
    /\ IdleParser
    /\ IdleRepeat
    /\ IdleGit
    /\ IdleRuff
    /\ IdleBase

InvInLoop(p) == inv[p].pc = "loop" /\ inv[p].idx <= Len(inv[p].lines)

InvSplitLines(p) ==
    /\ inv[p].pc = "entry"
    /\ inv' = [inv EXCEPT ![p] =
                 withLocals([inv[p] EXCEPT !.lines = Split(inv[p].diff), !.idx = 1,
                                      !.pc = "loop"], initialScan)]
    /\ UNCHANGED <<parserVars, repeatVars, gitVars, ruffVars, baseVars>>

InvHunkHeaderLine(p) ==
    /\ InvInLoop(p)
    /\ LET match == hunkHeaderRegex(inv[p].lines[inv[p].idx])
       IN  /\ match # <<>>
           /\ ~AtoiFails(match)
           /\ inv' = [inv EXCEPT ![p] =
                        withLocals([inv[p] EXCEPT !.idx = @ + 1],
                                   enterHunk(scanLocals(inv, p), Atoi(match)))]
    /\ UNCHANGED <<parserVars, repeatVars, gitVars, ruffVars, baseVars>>

InvHunkHeaderError(p) ==
    /\ InvInLoop(p)
    /\ LET match == hunkHeaderRegex(inv[p].lines[inv[p].idx])
       IN  /\ match # <<>>
           /\ AtoiFails(match)
           /\ inv' = [inv EXCEPT ![p] =
                        withLocals([inv[p] EXCEPT !.retRanges = <<>>,
                                             !.retErr = TRUE, !.pc = "done"],
                                   finalizeRange(scanLocals(inv, p)))]
    /\ UNCHANGED <<parserVars, repeatVars, gitVars, ruffVars, baseVars>>

\* a line that is not a header: outside a hunk, or one case of the switch
InvBodyLine(p) ==
    /\ InvInLoop(p)
    /\ hunkHeaderRegex(inv[p].lines[inv[p].idx]) = <<>>
    /\ inv' = [inv EXCEPT ![p] =
                 withLocals([inv[p] EXCEPT !.idx = @ + 1],
                            bodyLine(scanLocals(inv, p), inv[p].lines[inv[p].idx]))]
    /\ UNCHANGED <<parserVars, repeatVars, gitVars, ruffVars, baseVars>>

InvReturnRanges(p) ==
    /\ inv[p].pc = "loop"
    /\ inv[p].idx > Len(inv[p].lines)
    /\ inv' = [inv EXCEPT ![p] =
                 withLocals([inv[p] EXCEPT
                               !.retRanges = finalizeRange(scanLocals(inv, p)).ranges,
                               !.retErr = FALSE, !.pc = "done"],
                            finalizeRange(scanLocals(inv, p)))]
    /\ UNCHANGED <<parserVars, repeatVars, gitVars, ruffVars, baseVars>>

NextConc ==
    \E p \in Procs :
        \/ InvSplitLines(p)
        \/ InvHunkHeaderLine(p)
        \/ InvHunkHeaderError(p)
        \/ InvBodyLine(p)
        \/ InvReturnRanges(p)

SpecConc == InitConc /\ [][NextConc]_vars

\* C18: calls of parseUnifiedDiff on different files' diffs whose line
\* steps interleave in any order each behave as when run alone: in the
\* loop, the locals of a call are those the scan of its own lines gives, and
\* what it returns is what the call returns for its diff on its own.
C18_InterleavedCallsIndependent ==
    \A p \in DOMAIN inv :
        /\ inv[p].pc = "loop" =>
              [currentNewLine |-> inv[p].currentNewLine,
               changeRangeStart |-> inv[p].changeRangeStart,
               ranges |-> inv[p].ranges]
                 = scanPrefix(inv[p].lines, inv[p].idx - 1)
        /\ inv[p].pc = "done" =>
              [ranges |-> inv[p].retRanges, err |-> inv[p].retErr]
                 = parseUnifiedDiff(inv[p].diff)

\* C18 witness: call 2 has an open block in the middle of its diff while
\* call 1, on another diff, has closed one range and is still in its loop
C18_Witness ==
    /\ inv # <<>>
    /\ inv[1].diff = DiffMultipleHunks
    /\ inv[1].pc = "loop"
    /\ inv[1].ranges = <<LineRange(2, 2)>>
    /\ inv[2].diff = DiffComplexHunk
    /\ inv[2].pc = "loop"
    /\ inv[2].changeRangeStart = 10

(***************************************************************************)
(* Git.GetChangedLineRanges: the changed Python files and their ranges.    *)
(*                                                                         *)
(* worktree is what git sees: whether the base branch exists, and for      *)
(* every file of the work tree its status against the base branch          *)
(* ("unchanged", "modified": tracked and different, "untracked"), what     *)
(* "git diff <base> -- <file>" does for it and how many lines it has.      *)
(***************************************************************************)
DigitChar(n) ==
    CASE n = 0 -> "0" [] n = 1 -> "1" [] n = 2 -> "2" [] n = 3 -> "3"
      [] n = 4 -> "4" [] n = 5 -> "5" [] n = 6 -> "6" [] n = 7 -> "7"
      [] n = 8 -> "8" [] n = 9 -> "9"

\* f<i>.py
PyFile(i) == <<"f", DigitChar(i), ".", "p", "y">>

\* n.txt
NotesFile == <<"n", ".", "t", "x", "t">>

\* the files of the work tree, in the order git lists paths
AllFiles == [i \in 1..MaxFiles |-> PyFile(i)] \o <<NotesFile>>

FileSet == {AllFiles[i] : i \in 1..Len(AllFiles)}

\* the outputs of "git diff <base> -- <file>" for a modified file
GitDiffTexts ==
    {DiffSingleAddedLine, DiffMultipleHunks, DiffNoAddedLines, DiffIntMaxPlus1}

FileState(status, fails, text, lineCount) ==
    [status |-> status, diffFails |-> fails, diffText |-> text,
     lineCount |-> lineCount]

PyFileStates ==
    {FileState("unchanged", FALSE, <<>>, 1)}
        \cup {FileState("modified", TRUE, <<>>, 1)}
        \cup {FileState("modified", FALSE, text, 1) : text \in GitDiffTexts}
        \cup {FileState("untracked", FALSE, <<>>, n) : n \in {1, 3}}

NotesFileStates ==
    {FileState("unchanged", FALSE, <<>>, 1),
     FileState("modified", FALSE, DiffSingleAddedLine, 1)}

Worktrees ==
    {[baseExists |-> b, files |-> fs] :
        b \in BOOLEAN,
        fs \in {f \in [FileSet -> PyFileStates \cup NotesFileStates] :
                   /\ f[NotesFile] \in NotesFileStates
                   /\ \A i \in 1..MaxFiles : f[PyFile(i)] \in PyFileStates}}

RECURSIVE NameOnlyFrom(_, _)
NameOnlyFrom(wt, i) ==
    IF i > Len(AllFiles) THEN <<>>
    ELSE (IF wt.files[AllFiles[i]].status = "modified"
          THEN AllFiles[i] \o <<NL>> ELSE <<>>)
         \o NameOnlyFrom(wt, i + 1)

\* the output of "git diff --name-only <base>": one line per tracked file
\* that differs from the base branch; untracked files are not listed
NameOnlyOutput(wt) == NameOnlyFrom(wt, 1)

WhiteSpace == {" ", NL, "\t", "\r"}

RECURSIVE TrimLeft(_)
TrimLeft(s) ==
    IF s # <<>> /\ s[1] \in WhiteSpace THEN TrimLeft(Tail(s)) ELSE s

RECURSIVE TrimRight(_)
TrimRight(s) ==
    IF s # <<>> /\ s[Len(s)] \in WhiteSpace
    THEN TrimRight(SubSeq(s, 1, Len(s) - 1)) ELSE s

\* strings.TrimSpace
TrimSpace(s) == TrimRight(TrimLeft(s))

\* strings.HasSuffix
HasSuffix(s, suffix) ==
    /\ Len(s) >= Len(suffix)
    /\ SubSeq(s, Len(s) - Len(suffix) + 1, Len(s)) = suffix

IsPyFile(file) == HasSuffix(file, <<".", "p", "y">>)

\* Git.GetChangedFiles when the git command succeeds
GetChangedFiles(wt) ==
    LET output == NameOnlyOutput(wt)
    IN  IF Len(output) = 0 THEN <<>>
        ELSE SelectSeq(Split(TrimSpace(output)), IsPyFile)

\* the loop of GetChangedLineRanges stops at the first file that fails
nextFile_stop(i, n) == n + 1

\* the file the loop goes on with after file i of n: continue
nextFile(i, n) == i + 1

InitGit ==
    /\ worktree \in Worktrees
    /\ changedFiles = <<>>
    /\ fileIdx = 0
    /\ fileChangesList = <<>>
    /\ gitRet = <<>>
    /\ gitPc = "entry"
    /\ IdleParser
    /\ IdleRepeat
    /\ IdleConc
    /\ IdleRuff
    /\ IdleBase

GitReturn(changes, err) ==
    /\ gitRet' = <<[changes |-> changes, err |-> err]>>
    /\ gitPc' = "done"

\* GetChangedFiles returns an error: return nil, err
ChangedFilesError ==
    /\ gitPc = "entry"
    /\ ~worktree.baseExists
    /\ GitReturn(<<>>, TRUE)
    /\ UNCHANGED <<worktree, changedFiles, fileIdx, fileChangesList>>
    /\ UNCHANGED <<parserVars, repeatVars, concVars, ruffVars, baseVars>>

\* len(changedFiles) == 0: return []FileChanges{}, nil
NoChangedFiles ==
    /\ gitPc = "entry"
    /\ worktree.baseExists
    /\ GetChangedFiles(worktree) = <<>>
    /\ GitReturn(<<>>, FALSE)
    /\ UNCHANGED <<worktree, changedFiles, fileIdx, fileChangesList>>
    /\ UNCHANGED <<parserVars, repeatVars, concVars, ruffVars, baseVars>>

SomeChangedFiles ==
    /\ gitPc = "entry"
    /\ worktree.baseExists
    /\ GetChangedFiles(worktree) # <<>>
    /\ changedFiles' = GetChangedFiles(worktree)
    /\ fileIdx' = 1
    /\ fileChangesList' = <<>>
    /\ gitPc' = "loop"
    /\ UNCHANGED <<worktree, gitRet>>
    /\ UNCHANGED <<parserVars, repeatVars, concVars, ruffVars, baseVars>>

InFileLoop == gitPc = "loop" /\ fileIdx <= Len(changedFiles)

CurrentFile == worktree.files[changedFiles[fileIdx]]

\* getFileLineRanges: the git diff command fails; warning, continue
FileDiffFails ==
    /\ InFileLoop
    /\ CurrentFile.diffFails
    /\ fileIdx' = nextFile(fileIdx, Len(changedFiles))
    /\ UNCHANGED <<worktree, changedFiles, fileChangesList, gitRet, gitPc>>
    /\ UNCHANGED <<parserVars, repeatVars, concVars, ruffVars, baseVars>>

\* getFileLineRanges: parseUnifiedDiff returns an error; warning, continue
FileParseFails ==
    /\ InFileLoop
    /\ ~CurrentFile.diffFails
    /\ parseUnifiedDiff(CurrentFile.diffText).err
    /\ fileIdx' = nextFile(fileIdx, Len(changedFiles))
    /\ UNCHANGED <<worktree, changedFiles, fileChangesList, gitRet, gitPc>>
    /\ UNCHANGED <<parserVars, repeatVars, concVars, ruffVars, baseVars>>

\* the test that keeps every file
hasRanges_always(lineRanges) == TRUE

\* len(ranges) > 0
hasRanges(lineRanges) == Len(lineRanges) > 0

\* len(ranges) == 0: nothing is appended
FileWithoutRanges ==
    /\ InFileLoop
    /\ ~CurrentFile.diffFails
    /\ ~parseUnifiedDiff(CurrentFile.diffText).err
    /\ ~hasRanges(parseUnifiedDiff(CurrentFile.diffText).ranges)
    /\ fileIdx' = fileIdx + 1
    /\ UNCHANGED <<worktree, changedFiles, fileChangesList, gitRet, gitPc>>
    /\ UNCHANGED <<parserVars, repeatVars, concVars, ruffVars, baseVars>>

FileChangesOf(file, lineRanges) == [FilePath |-> file, LineRanges |-> lineRanges]

FileWithRanges ==
    /\ InFileLoop
    /\ ~CurrentFile.diffFails
    /\ ~parseUnifiedDiff(CurrentFile.diffText).err
    /\ hasRanges(parseUnifiedDiff(CurrentFile.diffText).ranges)
    /\ fileChangesList' =
          Append(fileChangesList,
                 FileChangesOf(changedFiles[fileIdx],
                               parseUnifiedDiff(CurrentFile.diffText).ranges))
    /\ fileIdx' = fileIdx + 1
    /\ UNCHANGED <<worktree, changedFiles, gitRet, gitPc>>
    /\ UNCHANGED <<parserVars, repeatVars, concVars, ruffVars, baseVars>>

\* return fileChangesList, nil
ReturnFileChanges ==
    /\ gitPc = "loop"
    /\ fileIdx > Len(changedFiles)
    /\ GitReturn(fileChangesList, FALSE)
    /\ UNCHANGED <<worktree, changedFiles, fileIdx, fileChangesList>>
    /\ UNCHANGED <<parserVars, repeatVars, concVars, ruffVars, baseVars>>

NextGit ==
    \/ ChangedFilesError
    \/ NoChangedFiles
    \/ SomeChangedFiles
    \/ FileDiffFails
    \/ FileParseFails
    \/ FileWithoutRanges
    \/ FileWithRanges
    \/ ReturnFileChanges

SpecGit == InitGit /\ [][NextGit]_vars

GitDone == gitPc = "done"

\* extraction fails for file f: the diff command fails or the diff has a
\* header whose new-start does not fit an int
ExtractionFails(f) ==
    \/ worktree.files[f].diffFails
    \/ \E k \in 1..Len(Split(worktree.files[f].diffText)) :
          Split(worktree.files[f].diffText)[k] \in OverflowHeaders

ModifiedPy(f) == IsPyFile(f) /\ worktree.files[f].status = "modified"

RecordsOf(f) ==
    {j \in 1..Len(gitRet[1].changes) : gitRet[1].changes[j].FilePath = f}

\* C15: when extraction fails for one file, GetChangedLineRanges skips only
\* that file: it returns a nil error, no record for a file whose extraction
\* failed, and for every other changed Python file whose diff has ranges,
\* before or after the failing one, one record with the ranges of its diff.
C15_FailedFileSkippedOnly ==
    (GitDone /\ worktree.baseExists) =>
        /\ ~gitRet[1].err
        /\ \A f \in FileSet :
              /\ (ModifiedPy(f) /\ ExtractionFails(f)) => RecordsOf(f) = {}
              /\ (ModifiedPy(f) /\ ~ExtractionFails(f)
                    /\ RangesOf(Split(worktree.files[f].diffText)) # <<>>)
                 => \E j \in 1..Len(gitRet[1].changes) :
                       /\ RecordsOf(f) = {j}
                       /\ gitRet[1].changes[j].LineRanges
                            = RangesOf(Split(worktree.files[f].diffText))

\* C15 witness: the first file's diff has a header that Atoi rejects, the
\* second file's record is returned
C15_Witness ==
    /\ GitDone
    /\ worktree.baseExists
    /\ worktree.files[PyFile(1)].status = "modified"
    /\ worktree.files[PyFile(1)].diffText = DiffIntMaxPlus1
    /\ gitRet[1] = [changes |-> <<FileChangesOf(PyFile(2),
                                                <<LineRange(2, 2), LineRange(12, 13)>>)>>,
                    err |-> FALSE]

\* C16 (as claimed): for an untracked Python file the call returns a
\* FileChanges with exactly one range {1, number of lines of the file}.
C16_UntrackedFileWholeRange ==
    (GitDone /\ worktree.baseExists) =>
        \A f \in FileSet :
            (IsPyFile(f) /\ worktree.files[f].status = "untracked") =>
                \E j \in 1..Len(gitRet[1].changes) :
                    /\ gitRet[1].changes[j].FilePath = f
                    /\ gitRet[1].changes[j].LineRanges
                         = <<LineRange(1, worktree.files[f].lineCount)>>

(***************************************************************************)
(* Ruff.FormatFilesByLineRanges: one ruff process per range.               *)
(***************************************************************************)
RECURSIVE ItoaDigits(_)
ItoaDigits(n) ==
    IF n < 10 THEN <<DigitChar(n)>>
    ELSE ItoaDigits(n \div 10) \o <<DigitChar(n % 10)>>

\* strconv.Itoa
Itoa(n) == IF n < 0 THEN <<"-">> \o ItoaDigits(0 - n) ELSE ItoaDigits(n)

\* a range argument that always has both ends
formatRangeArg_bothEnds(start, end) == Itoa(start) \o <<":">> \o Itoa(end)

formatRangeArg(start, end) ==
    IF start = end THEN Itoa(start)
    ELSE Itoa(start) \o <<":">> \o Itoa(end)

RECURSIVE Clean(_)
\* filepath.Clean on a path without "." and ".." elements: repeated
\* separators become one, a trailing separator is dropped
Clean(path) ==
    IF Len(path) <= 1 THEN path
    ELSE IF path[1] = "/" /\ path[2] = "/" THEN Clean(Tail(path))
    ELSE IF Len(path) = 2 /\ path[2] = "/" THEN <<path[1]>>
    ELSE <<path[1]>> \o Clean(Tail(path))

\* filepath.Join of two elements: empty elements are ignored
filepathJoin(a, b) ==
    IF a = <<>> THEN Clean(b)
    ELSE IF b = <<>> THEN Clean(a)
    ELSE Clean(a \o <<"/">> \o b)

ArgFormat == <<"f", "o", "r", "m", "a", "t">>
ArgCheck == <<"-", "-", "c", "h", "e", "c", "k">>
ArgDiff == <<"-", "-", "d", "i", "f", "f">>
ArgRange == <<"-", "-", "r", "a", "n", "g", "e">>

\* arguments that, in dry-run mode, carry --check alone
ruffArgs_checkOnly(dry, filePath, lineRange) ==
    <<ArgFormat>>
        \o (IF dry THEN <<ArgCheck>> ELSE <<>>)
        \o <<ArgRange, formatRangeArg(lineRange.Start, lineRange.End)>>
        \o <<filePath>>

\* the arguments formatFileWithRange builds
ruffArgs(dry, filePath, lineRange) ==
    <<ArgFormat>>
        \o (IF dry THEN <<ArgCheck, ArgDiff>> ELSE <<>>)
        \o <<ArgRange, formatRangeArg(lineRange.Start, lineRange.End)>>
        \o <<filePath>>

WouldBeReformatted == <<"w", "o", "u", "l", "d", " ", "b", "e", " ", "r", "e", "f", "o", "r", "m", "a", "t", "t", "e", "d">>
WouldReformat == <<"w", "o", "u", "l", "d", " ", "r", "e", "f", "o", "r", "m", "a", "t">>
ErrorColon == <<"e", "r", "r", "o", "r", ":">>

\* strings.Contains
Contains(s, substr) ==
    \E k \in 0..(Len(s) - Len(substr)) :
        SubSeq(s, k + 1, k + Len(substr)) = substr

\* combined outputs of a ruff process
RuffOutputs ==
    {<<>>,
     WouldReformat,
     <<"1", " ">> \o WouldBeReformatted,
     ErrorColon \o <<" ", "x">>,
     WouldReformat \o <<NL>> \o ErrorColon}

\* what a ruff process does: its exit status and its combined output
RuffRuns == {[exitFails |-> e, output |-> o] : e \in BOOLEAN, o \in RuffOutputs}

HasArg(args, arg) == \E k \in 1..Len(args) : args[k] = arg

\* by how many lines a ruff process that rewrites a range changes the file
LineDeltas == {0 - 1, 0, 1}

\* what a ruff process started with args does to its file: with --check or
\* --diff it writes nothing; without them a process that exits with success
\* may have rewritten the range, in fewer, as many or more lines
RuffEffects(args, run) ==
    IF HasArg(args, ArgCheck) \/ HasArg(args, ArgDiff) \/ run.exitFails
    THEN {[wrote |-> FALSE, delta |-> 0]}
    ELSE {[wrote |-> FALSE, delta |-> 0]}
            \cup {[wrote |-> TRUE, delta |-> d] : d \in LineDeltas}

\* the error decision that never reports an error in dry-run mode
formatFails_dryNever(dry, run) ==
    ~dry /\ run.exitFails /\ Contains(run.output, ErrorColon)

\* the error decision without the test of the exit status
formatFails_ignoreExit(dry, run) ==
    IF dry
    THEN /\ ~(Contains(run.output, WouldBeReformatted)
                \/ Contains(run.output, WouldReformat))
         /\ Contains(run.output, ErrorColon)
    ELSE Contains(run.output, ErrorColon)

\* formatFileWithRange returns an error
formatFails(dry, run) ==
    IF run.exitFails /\ dry
    THEN /\ ~(Contains(run.output, WouldBeReformatted)
                \/ Contains(run.output, WouldReformat))
         /\ Contains(run.output, ErrorColon)
    ELSE IF run.exitFails /\ ~dry
    THEN Contains(run.output, ErrorColon)
    ELSE FALSE

RuffRangeLists ==
    {<<>>,
     <<LineRange(10, 10)>>,
     <<LineRange(5, 15), LineRange(50, 51)>>,
     <<LineRange(1, 1), LineRange(1, 100), LineRange(999, 999)>>}

\* lists of FileChanges: file i of the list is f<i>.py
FileChangesLists ==
    UNION {[1..n -> RuffRangeLists] : n \in 0..MaxFileChanges}

FileChangesInput(rls) ==
    [i \in 1..Len(rls) |-> FileChangesOf(PyFile(i), rls[i])]

RepoRoots == {<<"/", "r">>, <<"/", "r", "/">>}

InitRuff ==
    /\ repoRoot \in RepoRoots
    /\ \E rls \in FileChangesLists : fileChanges = FileChangesInput(rls)
    /\ dryRun \in BOOLEAN
    /\ fcIdx = 0
    /\ lrIdx = 0
    /\ invocations = <<>>
    /\ lastRun = <<>>
    /\ written = {}
    /\ shift = 0
    /\ ruffRet = <<>>
    /\ ruffPc = "entry"
    /\ IdleParser
    /\ IdleRepeat
    /\ IdleConc
    /\ IdleGit
    /\ IdleBase

\* len(fileChanges) == 0: return nil
NothingToFormat ==
    /\ ruffPc = "entry"
    /\ Len(fileChanges) = 0
    /\ ruffRet' = <<[err |-> FALSE]>>
    /\ ruffPc' = "done"
    /\ UNCHANGED <<repoRoot, fileChanges, dryRun, fcIdx, lrIdx, invocations, lastRun,
                 written, shift>>
    /\ UNCHANGED <<parserVars, repeatVars, concVars, gitVars, baseVars>>

StartFormatting ==
    /\ ruffPc = "entry"
    /\ Len(fileChanges) > 0
    /\ fcIdx' = 1
    /\ lrIdx' = 1
    /\ ruffPc' = "loop"
    /\ UNCHANGED <<repoRoot, fileChanges, dryRun, invocations, lastRun, ruffRet,
                   written, shift>>
    /\ UNCHANGED <<parserVars, repeatVars, concVars, gitVars, baseVars>>

InRangeLoop ==
    /\ ruffPc = "loop"
    /\ fcIdx <= Len(fileChanges)
    /\ lrIdx <= Len(fileChanges[fcIdx].LineRanges)

\* the range the loop takes after range i of a file skips one
nextRange_skip(i) == i + 2

\* the range the loop takes after range i of a file
nextRange(i) == i + 1

\* cmd := exec.Command("ruff", args...); cmd.Dir = r.repoRoot
\* (target: where the lines of lineRange are in the file when ruff starts)
Invocation(lineRange) ==
    [args |-> ruffArgs(dryRun, filepathJoin(repoRoot, fileChanges[fcIdx].FilePath),
                       lineRange),
     dir |-> repoRoot,
     lineRange |-> lineRange,
     target |-> LineRange(lineRange.Start + shift, lineRange.End + shift)]

\* one ruff process runs on the current range of the current file
RunRuff(fails) ==
    LET call == Invocation(fileChanges[fcIdx].LineRanges[lrIdx])
    IN  /\ invocations' = Append(invocations, call)
        /\ \E run \in RuffRuns :
              /\ formatFails(dryRun, run) = fails
              /\ lastRun' = <<run>>
              /\ \E effect \in RuffEffects(call.args, run) :
                    /\ written' = IF effect.wrote
                                  THEN written \cup {call.args[Len(call.args)]}
                                  ELSE written
                    /\ shift' = shift + effect.delta

\* formatFileWithRange returns nil: the loop goes on
FormatRange ==
    /\ InRangeLoop
    /\ RunRuff(FALSE)
    /\ lrIdx' = nextRange(lrIdx)
    /\ UNCHANGED <<repoRoot, fileChanges, dryRun, fcIdx, ruffRet, ruffPc>>
    /\ UNCHANGED <<parserVars, repeatVars, concVars, gitVars, baseVars>>

\* formatFileWithRange returns an error: return err
FormatRangeError ==
    /\ InRangeLoop
    /\ RunRuff(TRUE)
    /\ ruffRet' = <<[err |-> TRUE]>>
    /\ ruffPc' = "done"
    /\ UNCHANGED <<repoRoot, fileChanges, dryRun, fcIdx, lrIdx>>
    /\ UNCHANGED <<parserVars, repeatVars, concVars, gitVars, baseVars>>

\* the ranges of a file are done: the next FileChanges
NextFileChanges ==
    /\ ruffPc = "loop"
    /\ fcIdx <= Len(fileChanges)
    /\ lrIdx > Len(fileChanges[fcIdx].LineRanges)
    /\ fcIdx' = fcIdx + 1
    /\ lrIdx' = 1
    /\ shift' = 0
    /\ UNCHANGED <<repoRoot, fileChanges, dryRun, invocations, lastRun, ruffRet,
                   ruffPc, written>>
    /\ UNCHANGED <<parserVars, repeatVars, concVars, gitVars, baseVars>>

\* return nil
ReturnFormatted ==
    /\ ruffPc = "loop"
    /\ fcIdx > Len(fileChanges)
    /\ ruffRet' = <<[err |-> FALSE]>>
    /\ ruffPc' = "done"
    /\ UNCHANGED <<repoRoot, fileChanges, dryRun, fcIdx, lrIdx, invocations, lastRun,
                 written, shift>>
    /\ UNCHANGED <<parserVars, repeatVars, concVars, gitVars, baseVars>>

NextRuff ==
    \/ NothingToFormat
    \/ StartFormatting
    \/ FormatRange
    \/ FormatRangeError
    \/ NextFileChanges
    \/ ReturnFormatted

SpecRuff == InitRuff /\ [][NextRuff]_vars

RuffDone == ruffPc = "done"

\* s is the decimal numeral of n >= 0, read back with Atoi
IsDecimalOf(s, n) ==
    /\ s # <<>>
    /\ \A k \in 1..Len(s) : s[k] \in Digit
    /\ Len(s) > 1 => s[1] # "0"
    /\ Atoi(s) = n

\* s is "<start>" when start = end, "<start>:<end>" otherwise
RendersRange(s, start, end) ==
    IF start = end THEN IsDecimalOf(s, start)
    ELSE \E k \in 1..Len(s) :
            /\ s[k] = ":"
            /\ IsDecimalOf(SubSeq(s, 1, k - 1), start)
            /\ IsDecimalOf(SubSeq(s, k + 1, Len(s)), end)

\* the cases of TestFormatRangeArgSingleLine / MultipleLines / EdgeCases
FormatRangeArgTests ==
    /\ formatRangeArg(10, 10) = <<"1", "0">>
    /\ formatRangeArg(5, 15) = <<"5", ":", "1", "5">>
    /\ formatRangeArg(1, 1) = <<"1">>
    /\ formatRangeArg(1, 100) = <<"1", ":", "1", "0", "0">>
    /\ formatRangeArg(999, 999) = <<"9", "9", "9">>
    /\ formatRangeArg(50, 51) = <<"5", "0", ":", "5", "1">>

RECURSIVE ExpectedCalls(_)
\* file by file, range by range: <root>/<filePath> and the range
ExpectedCalls(fcs) ==
    IF fcs = <<>> THEN <<>>
    ELSE [j \in 1..Len(fcs[1].LineRanges) |->
             [path |-> <<"/", "r", "/">> \o fcs[1].FilePath,
              lineRange |-> fcs[1].LineRanges[j]]]
         \o ExpectedCalls(Tail(fcs))

\* C20: when FormatFilesByLineRanges returns nil, the invocations it made
\* are, in order, one per LineRange of every FileChanges, file by file and
\* range by range, each on the repository root joined with the filePath.
C20_OneInvocationPerRangeInOrder ==
    (RuffDone /\ ~ruffRet[1].err) =>
        [i \in 1..Len(invocations) |->
            [path |-> invocations[i].args[Len(invocations[i].args)],
             lineRange |-> invocations[i].lineRange]]
          = ExpectedCalls(fileChanges)

\* C20 witness: two files, two ranges then three, five invocations
C20_Witness ==
    /\ RuffDone
    /\ ~ruffRet[1].err
    /\ Len(fileChanges) = 2
    /\ Len(fileChanges[1].LineRanges) = 2
    /\ Len(fileChanges[2].LineRanges) = 3
    /\ Len(invocations) = 5
    /\ invocations[3].lineRange = LineRange(1, 1)
    /\ invocations[3].args[Len(invocations[3].args)] = <<"/", "r", "/">> \o PyFile(2)

\* C21: in dry-run mode every ruff invocation carries --check and --diff,
\* and no file is written; outside dry-run mode no invocation carries them.
C21_DryRunFlags ==
    /\ \A i \in 1..Len(invocations) :
          /\ HasArg(invocations[i].args, ArgCheck) <=> dryRun
          /\ HasArg(invocations[i].args, ArgDiff) <=> dryRun
    /\ dryRun => written = {}

\* C21 witness: a dry run that ran ruff three times, and a ruff process
\* that found something to reformat
C21_Witness ==
    /\ RuffDone
    /\ dryRun
    /\ Len(invocations) = 3
    /\ invocations[3].args[2] = ArgCheck
    /\ invocations[3].args[3] = ArgDiff
    /\ lastRun[1].exitFails
    /\ Contains(lastRun[1].output, WouldReformat)

\* the ranges of a file as parseUnifiedDiff gives them for ascending hunks:
\* each below the one before
RangesAscend(lineRanges) ==
    \A j \in 1..(Len(lineRanges) - 1) : lineRanges[j].End < lineRanges[j + 1].Start

\* C22 (as claimed): every invocation is given the range where the lines
\* that the diff marked as added are in the file when ruff starts, also
\* after an earlier invocation on the same file changed its number of lines.
C22_LaterRangesStillOnAddedLines ==
    (\A f \in 1..Len(fileChanges) : RangesAscend(fileChanges[f].LineRanges)) =>
        \A i \in 1..Len(invocations) :
            invocations[i].lineRange = invocations[i].target

(***************************************************************************)
(* The steps of the scan, line by line.                                    *)
(***************************************************************************)
IsPrefixOf(a, b) == Len(a) <= Len(b) /\ SubSeq(b, 1, Len(a)) = a

\* the loop is at a header line whose new-start Atoi accepts
AtHeader ==
    /\ InLoop
    /\ IsHeader(lines[idx])
    /\ ~AtoiFails(hunkHeaderRegex(lines[idx]))

C24_HeaderStep ==
    /\ AtHeader =>
          /\ ranges' = IF changeRangeStart # 0
                       THEN Append(ranges, LineRange(changeRangeStart,
                                                     currentNewLine - 1))
                       ELSE ranges
          /\ currentNewLine' = NewStart(lines, idx)
          /\ changeRangeStart' = 0
    /\ pc = "loop" => IsPrefixOf(ranges, ranges')
    /\ (pc' = "done" /\ diff = DiffTouchingHunks) =>
          retRanges' = <<LineRange(1, 1), LineRange(2, 2)>>

\* C24: a header line closes the block that is open when it is read, with
\* end = the counter of the previous hunk - 1, then sets currentNewLine to
\* its new-start and changeRangeStart to 0; a range once emitted is never
\* changed, so added lines on both sides of a header are never merged, also
\* when the second hunk starts at the line right after the open block.
C24_HeaderClosesBlock == [][C24_HeaderStep]_vars

\* C24 witness: the two touching hunks were scanned
C24_Witness ==
    /\ Done
    /\ diff = DiffTouchingHunks
    /\ lines[3] = Header_1_2
    /\ retRanges = <<LineRange(1, 1), LineRange(2, 2)>>

C25_DeletedLineStep ==
    /\ (InHunk /\ FirstChar(lines[idx]) = "-") =>
          /\ ranges' = IF changeRangeStart # 0
                       THEN Append(ranges, LineRange(changeRangeStart,
                                                     currentNewLine - 1))
                       ELSE ranges
          /\ changeRangeStart' = 0
          /\ currentNewLine' = currentNewLine
    /\ (pc' = "done" /\ diff = DiffComplexHunk) =>
          retRanges' = <<LineRange(8, 8), LineRange(10, 11)>>

\* C25 (as claimed): a deleted line inside a hunk closes any open block and
\* leaves currentNewLine unchanged; header new-start 8 with body
\* "-", "+", " ", "+", "+", "-" yields [{8,8},{10,11}].
C25_DeletedLineClosesBlock == [][C25_DeletedLineStep]_vars

\* C26: outside any hunk (currentNewLine = 0) a line that is not a header,
\* whatever its first character, leaves currentNewLine, changeRangeStart
\* and the output unchanged.
C26_OutsideHunkIgnored ==
    [][(InLoop /\ ~IsHeader(lines[idx]) /\ currentNewLine = 0) =>
          UNCHANGED <<currentNewLine, changeRangeStart, ranges, retRanges,
                      retErr>>]_vars

\* C26 witness: "+x" and "+" before the first header
C26_Witness ==
    /\ Done
    /\ lines = <<PlusText, Plus, Header1, Plus>>
    /\ retRanges = <<LineRange(1, 1)>>

\* C27: a line of length 0 inside a hunk neither closes an open block nor
\* advances currentNewLine; two added lines with only such a line between
\* them fall into one range.
C27_EmptyLineNoEffect ==
    [][/\ (InHunk /\ Len(lines[idx]) = 0) =>
             UNCHANGED <<currentNewLine, changeRangeStart, ranges>>
       /\ (pc' = "done" /\ lines = <<Header1, Plus, Empty, Plus>>) =>
             retRanges' = <<LineRange(1, 2)>>]_vars

C27_Witness ==
    /\ Done
    /\ lines = <<Header1, Plus, Empty, Plus>>
    /\ retRanges = <<LineRange(1, 2)>>

\* C28: a non-empty line inside a hunk whose first character is none of
\* "+", " ", "-" changes neither currentNewLine nor changeRangeStart nor
\* the output, and is counted in no range.
C28_OtherLineNoEffect ==
    [][/\ (InHunk /\ Len(lines[idx]) > 0
             /\ FirstChar(lines[idx]) \notin {"+", " ", "-"}) =>
             UNCHANGED <<currentNewLine, changeRangeStart, ranges, retRanges,
                         retErr>>
       /\ (pc' = "done" /\ lines = <<Header1, Plus, NoNewline, Plus>>) =>
             retRanges' = <<LineRange(1, 2)>>]_vars

C28_Witness ==
    /\ Done
    /\ lines = <<Header1, Plus, NoNewline, Plus>>
    /\ retRanges = <<LineRange(1, 2)>>

\* the last added line of the diff
LastAdded(ls) == CHOOSE k \in AddedIdx(ls) : \A m \in AddedIdx(ls) : m <= k

HeaderSuffixes == {<<" ", "x">>, <<" ", "@", "@">>, <<"+">>}

\* C30: a header followed on its line by any text after the closing "@@" is
\* recognised as a header, with the same new-start, and the scan gives the
\* same result as for the header without that text.
C30_HeaderSuffixIgnored ==
    (Done /\ ~retErr) =>
        \A h \in HeaderIdx(lines) : \A suffix \in HeaderSuffixes :
            /\ IsHeader(lines[h] \o suffix)
            /\ hunkHeaderRegex(lines[h] \o suffix) = hunkHeaderRegex(lines[h])
            /\ RangesOf([lines EXCEPT ![h] = lines[h] \o suffix]) = retRanges

\* C30 witness: "@@ -3 +3 @@ x" was read as a header with new-start 3
C30_Witness ==
    /\ Done
    /\ lines = <<Header3, Plus>>
    /\ Header3 = HunkHeader(<<"3">>, <<"3">>, <<>>) \o <<" ", "x">>
    /\ retRanges = <<LineRange(3, 3)>>

(***************************************************************************)
(* runCommand: the base branch, from --base or determineBaseBranch.        *)
(*                                                                         *)
(* repo is what git reports: the local branches in the order show-branch   *)
(* lists them, the branch that is checked out, whether "git show-branch"   *)
(* fails, and the branch origin/HEAD points to (<<>>: symbolic-ref fails). *)
(***************************************************************************)
Main == <<"m", "a", "i", "n">>
Master == <<"m", "a", "s", "t", "e", "r">>
Develop == <<"d", "e", "v", "e", "l", "o", "p">>
Development == <<"d", "e", "v", "e", "l", "o", "p", "m", "e", "n", "t">>
Feature == <<"f", "e", "a", "t">>
Trunk == <<"t", "r", "u", "n", "k">>

BranchNames == {Main, Master, Develop, Development, Feature, Trunk}

\* lists of distinct branches
BranchLists ==
    {bl \in UNION {[1..n -> BranchNames] : n \in 1..MaxBranches} :
        \A i, j \in 1..Len(bl) : i # j => bl[i] # bl[j]}

Repos ==
    UNION {{[branchList |-> bl, current |-> bl[c], showBranchFails |-> f,
             remoteDefault |-> d] :
               c \in 1..Len(bl), f \in BOOLEAN, d \in BranchNames \cup {<<>>}} :
           bl \in BranchLists}

RECURSIVE Spaces(_)
Spaces(n) == IF n = 0 THEN <<>> ELSE <<" ">> \o Spaces(n - 1)

RECURSIVE Dashes(_)
Dashes(n) == IF n = 0 THEN <<>> ELSE <<"-">> \o Dashes(n - 1)

\* line i of the branch list of show-branch: i - 1 spaces, "*" for the
\* current branch and "!" for another, then " [<name>] <subject>"
ShowBranchHeadLine(r, i) ==
    Spaces(i - 1)
        \o <<IF r.branchList[i] = r.current THEN "*" ELSE "!">>
        \o <<" ", "[">> \o r.branchList[i] \o <<"]", " ", "m">>

RECURSIVE ShowBranchHead(_, _)
ShowBranchHead(r, i) ==
    IF i > Len(r.branchList) THEN <<>>
    ELSE ShowBranchHeadLine(r, i) \o <<NL>> \o ShowBranchHead(r, i + 1)

\* the output of "git show-branch": for one branch a single line without a
\* separator; for more the branch list, a line of dashes and the commits
ShowBranchOutput(r) ==
    IF Len(r.branchList) = 1
    THEN <<"[">> \o r.branchList[1] \o <<"]", " ", "m", NL>>
    ELSE ShowBranchHead(r, 1)
            \o Dashes(Len(r.branchList)) \o <<NL>>
            \o <<"*", "+", " ", "[">> \o r.branchList[1] \o <<"^", "]", " ", "m", NL>>

\* strings.HasPrefix
HasPrefix(s, pre) == Len(s) >= Len(pre) /\ SubSeq(s, 1, Len(pre)) = pre

\* strings.Index for one character, counted from 1; 0: not found (-1 in Go)
IndexOf(s, c) ==
    IF \E k \in 1..Len(s) : s[k] = c
    THEN CHOOSE k \in 1..Len(s) : s[k] = c /\ \A m \in 1..(k - 1) : s[m] # c
    ELSE 0

RECURSIVE UpToMarker(_)
\* branchInfo up to the first "^" or "~"
UpToMarker(info) ==
    IF info = <<>> \/ info[1] \in {"^", "~"} THEN <<>>
    ELSE <<info[1]>> \o UpToMarker(Tail(info))

extractBranchName(line) ==
    LET startIdx == IndexOf(line, "[")
        endIdx == IndexOf(line, "]")
    IN  IF startIdx = 0 \/ endIdx = 0 \/ startIdx >= endIdx THEN <<>>
        ELSE UpToMarker(SubSeq(line, startIdx + 1, endIdx - 1))

RECURSIVE Indent(_)
\* the number of leading spaces
Indent(line) ==
    IF line # <<>> /\ line[1] = " " THEN 1 + Indent(Tail(line)) ELSE 0

\* the first line that begins with "--" (0: none; -1 in Go)
separatorIdx(ls) ==
    IF \E i \in 1..Len(ls) : HasPrefix(ls[i], <<"-", "-">>)
    THEN CHOOSE i \in 1..Len(ls) :
            /\ HasPrefix(ls[i], <<"-", "-">>)
            /\ \A m \in 1..(i - 1) : ~HasPrefix(ls[m], <<"-", "-">>)
    ELSE 0

\* the current branch taken to be unindented
currentIndent_zero(ls, sep, cur) == 0

\* the indentation of the first line that names the current branch
currentIndent(ls, sep, cur) ==
    LET named == {i \in 1..(sep - 1) : extractBranchName(ls[i]) = cur}
    IN  IF named = {} THEN 0 - 1
        ELSE Indent(ls[CHOOSE i \in named : \A m \in named : i <= m])

RECURSIVE closestParent(_, _, _, _, _, _, _)
\* the second loop, from line i on
closestParent(ls, i, sep, cur, curIndent, maxIndent, closest) ==
    IF i >= sep THEN closest
    ELSE LET branchName == extractBranchName(ls[i])
         IN  IF branchName = <<>> \/ branchName = cur
             THEN closestParent(ls, i + 1, sep, cur, curIndent, maxIndent, closest)
             ELSE IF Indent(ls[i]) < curIndent /\ Indent(ls[i]) > maxIndent
             THEN closestParent(ls, i + 1, sep, cur, curIndent, Indent(ls[i]),
                                branchName)
             ELSE closestParent(ls, i + 1, sep, cur, curIndent, maxIndent, closest)

\* the first listed branch that is not the current one ("" when none)
firstOtherBranch(ls, sep, cur) ==
    LET other == {i \in 1..(sep - 1) :
                     extractBranchName(ls[i]) \notin {<<>>, cur}}
    IN  IF other = {} THEN <<>>
        ELSE extractBranchName(ls[CHOOSE i \in other : \A m \in other : i <= m])

findParentBranch(r) ==
    IF r.showBranchFails THEN <<>>
    ELSE LET ls == Split(TrimSpace(ShowBranchOutput(r)))
             sep == separatorIdx(ls)
             closest == closestParent(ls, 1, sep, r.current,
                                      currentIndent(ls, sep, r.current), 0 - 1, <<>>)
         IN  IF sep = 0 THEN <<>>
             ELSE IF closest = <<>> THEN firstOtherBranch(ls, sep, r.current)
             ELSE closest

\* branchExists: git rev-parse --verify <branch>
branchExists(r, branch) == \E i \in 1..Len(r.branchList) : r.branchList[i] = branch

RECURSIVE SplitOnFrom(_, _, _, _)
SplitOnFrom(s, sep, p, cur) ==
    IF p > Len(s) THEN <<cur>>
    ELSE IF s[p] = sep THEN <<cur>> \o SplitOnFrom(s, sep, p + 1, <<>>)
    ELSE SplitOnFrom(s, sep, p + 1, Append(cur, s[p]))

\* strings.Split(s, sep) for a separator of one character
SplitOn(s, sep) == SplitOnFrom(s, sep, 1, <<>>)

\* the output of git symbolic-ref refs/remotes/origin/HEAD
SymbolicRefOutput(r) == <<"r", "e", "f", "s", "/", "r", "e", "m", "o", "t", "e", "s", "/", "o", "r", "i", "g", "i", "n", "/">> \o r.remoteDefault \o <<NL>>

getRemoteDefaultBranch(r) ==
    IF r.remoteDefault = <<>> THEN <<>>
    ELSE LET parts == SplitOn(TrimSpace(SymbolicRefOutput(r)), "/")
         IN  parts[Len(parts)]

commonBranches == <<Main, Master, Develop, Development>>

\* the loop without the test of the current branch
CommonCandidates_withCurrent(r) ==
    {i \in 1..Len(commonBranches) : branchExists(r, commonBranches[i])}

\* the common branches the loop returns at: not the current one, existing
CommonCandidates(r) ==
    {i \in 1..Len(commonBranches) :
        commonBranches[i] # r.current /\ branchExists(r, commonBranches[i])}

\* the test of the remote default branch without branchExists
remoteDefaultOk_noExists(r) ==
    /\ getRemoteDefaultBranch(r) # <<>>
    /\ getRemoteDefaultBranch(r) # r.current

remoteDefaultOk(r) ==
    /\ getRemoteDefaultBranch(r) # <<>>
    /\ getRemoteDefaultBranch(r) # r.current
    /\ branchExists(r, getRemoteDefaultBranch(r))

InitBase ==
    /\ repo \in Repos
    /\ baseFlag \in {<<>>, Trunk}
    /\ baseBranch = <<>>
    /\ basePc = "entry"
    /\ IdleParser
    /\ IdleRepeat
    /\ IdleConc
    /\ IdleGit
    /\ IdleRuff

BaseReturn(branch) ==
    /\ baseBranch' = branch
    /\ basePc' = "done"
    /\ UNCHANGED <<repo, baseFlag>>
    /\ UNCHANGED <<parserVars, repeatVars, concVars, gitVars, ruffVars>>

\* runCommand: --base was given
BaseGiven ==
    /\ basePc = "entry"
    /\ baseFlag # <<>>
    /\ BaseReturn(baseFlag)

\* determineBaseBranch: return parentBranch
ParentBranchFound ==
    /\ basePc = "entry"
    /\ baseFlag = <<>>
    /\ findParentBranch(repo) # <<>>
    /\ BaseReturn(findParentBranch(repo))

\* determineBaseBranch: the first common branch that exists
CommonBranchFound ==
    /\ basePc = "entry"
    /\ baseFlag = <<>>
    /\ findParentBranch(repo) = <<>>
    /\ CommonCandidates(repo) # {}
    /\ BaseReturn(commonBranches[CHOOSE i \in CommonCandidates(repo) :
                                    \A m \in CommonCandidates(repo) : i <= m])

\* determineBaseBranch: return defaultBranch
RemoteDefaultFound ==
    /\ basePc = "entry"
    /\ baseFlag = <<>>
    /\ findParentBranch(repo) = <<>>
    /\ CommonCandidates(repo) = {}
    /\ remoteDefaultOk(repo)
    /\ BaseReturn(getRemoteDefaultBranch(repo))

\* determineBaseBranch: return "main"
FallbackMain ==
    /\ basePc = "entry"
    /\ baseFlag = <<>>
    /\ findParentBranch(repo) = <<>>
    /\ CommonCandidates(repo) = {}
    /\ ~remoteDefaultOk(repo)
    /\ BaseReturn(Main)

NextBase ==
    \/ BaseGiven
    \/ ParentBranchFound
    \/ CommonBranchFound
    \/ RemoteDefaultFound
    \/ FallbackMain

SpecBase == InitBase /\ [][NextBase]_vars

BaseDone == basePc = "done"

\* the existing branches other than the current one
OtherBranches ==
    {repo.branchList[i] : i \in 1..Len(repo.branchList)} \ {repo.current}

C31_OpenBlockInsideHunk ==
    pc \in {"loop", "done"} =>
        /\ currentNewLine >= 0
        /\ changeRangeStart >= 0
        /\ changeRangeStart # 0 =>
              (currentNewLine > changeRangeStart /\ changeRangeStart >= 1)
        /\ currentNewLine = 0 => changeRangeStart = 0

\* C31 witness: inside a hunk with a block open, after a block was closed and
\* after lines read outside any hunk
C31_Witness ==
    /\ pc = "loop"
    /\ lines = <<NoNewline, Header3, Plus, Plus>>
    /\ idx = 5
    /\ currentNewLine = 5
    /\ changeRangeStart = 3

(***************************************************************************)
(* Errors of the ruff processes.                                           *)
(***************************************************************************)
\* a ruff process was started in this step
RuffStarted == Len(invocations') = Len(invocations) + 1

\* a failed process whose output has "error:", unless, in dry-run mode, the
\* output says that something would be reformatted
ErrorReported(dry, run) ==
    /\ run.exitFails
    /\ Contains(run.output, ErrorColon)
    /\ ~(dry /\ (\/ Contains(run.output, WouldBeReformatted)
                 \/ Contains(run.output, WouldReformat)))

\* the files and ranges the invocations were made on
CallsMade(invs) ==
    [i \in 1..Len(invs) |-> [path |-> invs[i].args[Len(invs[i].args)],
                             lineRange |-> invs[i].lineRange]]

C32_ErrorStep ==
    /\ ruffPc # "done"
    /\ (RuffStarted /\ ErrorReported(dryRun, lastRun'[1])) =>
          /\ ruffPc' = "done"
          /\ ruffRet' = <<[err |-> TRUE]>>
          /\ IsPrefixOf(CallsMade(invocations'), ExpectedCalls(fileChanges))
          /\ invocations'[Len(invocations')].lineRange
                = fileChanges[fcIdx].LineRanges[lrIdx]
    /\ IsPrefixOf(invocations, invocations')
    /\ written \subseteq written'

\* C32: FormatFilesByLineRanges stops at the first range whose invocation
\* reports an error: it returns an error, the invocations made are the
\* ranges up to that one in order, no step follows the return, and no file
\* written before is restored.
C32_StopsAtFirstError == [][C32_ErrorStep]_vars

\* C32 witness: the second of five ranges failed after the first was written
C32_Witness ==
    /\ RuffDone
    /\ ruffRet[1].err
    /\ ~dryRun
    /\ Len(ExpectedCalls(fileChanges)) = 5
    /\ Len(invocations) = 2
    /\ written # {}

\* C33: formatFileWithRange returns an error exactly when the process exits
\* with failure and its output contains "error:", except that in dry-run
\* mode an output with "would be reformatted" or "would reformat" is a
\* success; every other outcome returns nil.
C33_ErrorDecision ==
    [][RuffStarted =>
          ((ruffPc' = "done" /\ ruffRet'[1].err)
              <=> ErrorReported(dryRun, lastRun'[1]))]_vars

\* C33 witness: a dry run went on after a failed process whose output has
\* both "would reformat" and "error:"
C33_Witness ==
    /\ ruffPc = "loop"
    /\ dryRun
    /\ lastRun # <<>>
    /\ lastRun[1].exitFails
    /\ Contains(lastRun[1].output, WouldReformat)
    /\ Contains(lastRun[1].output, ErrorColon)

(***************************************************************************)
(* runCommand after GetChangedLineRanges: return, or hand the records to   *)
(* Ruff.FormatFilesByLineRanges.                                           *)
(***************************************************************************)
\* fileChanges, err := gitClient.GetChangedLineRanges(...): return err
RunCommandError ==
    /\ gitPc = "done"
    /\ gitRet[1].err
    /\ gitPc' = "returned"
    /\ UNCHANGED <<worktree, changedFiles, fileIdx, fileChangesList, gitRet>>
    /\ UNCHANGED <<parserVars, repeatVars, concVars, ruffVars, baseVars>>

\* len(fileChanges) == 0: return nil
RunCommandNoChanges ==
    /\ gitPc = "done"
    /\ ~gitRet[1].err
    /\ Len(gitRet[1].changes) = 0
    /\ gitPc' = "returned"
    /\ UNCHANGED <<worktree, changedFiles, fileIdx, fileChangesList, gitRet>>
    /\ UNCHANGED <<parserVars, repeatVars, concVars, ruffVars, baseVars>>

\* ruff.New(gitClient.GetRepoRoot(), dryRun, verbose) and the call of
\* FormatFilesByLineRanges(fileChanges)
RunCommandFormat ==
    /\ gitPc = "done"
    /\ ~gitRet[1].err
    /\ Len(gitRet[1].changes) # 0
    /\ gitPc' = "formatting"
    /\ repoRoot' \in RepoRoots
    /\ dryRun' \in BOOLEAN
    /\ fileChanges' = gitRet[1].changes
    /\ ruffPc' = "entry"
    /\ UNCHANGED <<fcIdx, lrIdx, invocations, lastRun, ruffRet, written, shift>>
    /\ UNCHANGED <<worktree, changedFiles, fileIdx, fileChangesList, gitRet>>
    /\ UNCHANGED <<parserVars, repeatVars, concVars, baseVars>>

NextRun ==
    \/ NextGit
    \/ RunCommandError
    \/ RunCommandNoChanges
    \/ RunCommandFormat

SpecRun == InitGit /\ [][NextRun]_vars

\* the place of file f in the list of changed files
FileOrder(f) == CHOOSE i \in 1..Len(AllFiles) : AllFiles[i] = f

\* C34: every record GetChangedLineRanges returns has at least one range,
\* the records are in the order of the changed-file list, a changed file
\* whose diff gives no range has no record, and FormatFilesByLineRanges is
\* called only with a list that has a record.
C34_RecordsNonEmptyInOrder ==
    (gitPc \in {"done", "returned", "formatting"} /\ ~gitRet[1].err) =>
        /\ \A j \in 1..Len(gitRet[1].changes) :
              Len(gitRet[1].changes[j].LineRanges) >= 1
        /\ \A j, k \in 1..Len(gitRet[1].changes) :
              j < k => FileOrder(gitRet[1].changes[j].FilePath)
                          < FileOrder(gitRet[1].changes[k].FilePath)
        /\ \A f \in FileSet :
              (ModifiedPy(f) /\ ~ExtractionFails(f)
                 /\ RangesOf(Split(worktree.files[f].diffText)) = <<>>)
              => RecordsOf(f) = {}
        /\ Len(gitRet[1].changes) = 0 => ruffPc = "idle"
        /\ ruffPc # "idle" => fileChanges = gitRet[1].changes

\* C34 witness: the only changed file has a diff without ranges, and
\* runCommand returned without calling the formatter
C34_Witness ==
    /\ gitPc = "returned"
    /\ ~gitRet[1].err
    /\ gitRet[1].changes = <<>>
    /\ worktree.files[PyFile(1)].status = "modified"
    /\ worktree.files[PyFile(1)].diffText = DiffNoAddedLines
    /\ ~worktree.files[PyFile(1)].diffFails
    /\ ruffPc = "idle"

ShowBranchLines == Split(TrimSpace(ShowBranchOutput(repo)))

\* the branch lines before the separator that name another branch
OtherLines ==
    {i \in 1..(separatorIdx(ShowBranchLines) - 1) :
        extractBranchName(ShowBranchLines[i]) \notin {<<>>, repo.current}}

\* the lines of other branches indented less than the current branch's line
LessIndented ==
    {i \in OtherLines :
        \E c \in 1..(separatorIdx(ShowBranchLines) - 1) :
            /\ extractBranchName(ShowBranchLines[c]) = repo.current
            /\ Indent(ShowBranchLines[i]) < Indent(ShowBranchLines[c])}

\* C36: findParentBranch never returns the current branch; it returns the
\* other branch of greatest indentation below the current branch's, the
\* first listed other branch when there is none, and "" when show-branch
\* gives no separator line or no other branch; with two branches it returns
\* the one that is not current.
C36_ParentBranch ==
    (basePc # "idle" /\ ~repo.showBranchFails) =>
        /\ findParentBranch(repo) # repo.current
        /\ findParentBranch(repo) =
              IF separatorIdx(ShowBranchLines) = 0 \/ OtherLines = {} THEN <<>>
              ELSE IF LessIndented # {}
              THEN extractBranchName(ShowBranchLines[
                      CHOOSE i \in LessIndented : \A m \in LessIndented :
                          Indent(ShowBranchLines[m]) <= Indent(ShowBranchLines[i])])
              ELSE extractBranchName(ShowBranchLines[
                      CHOOSE i \in OtherLines : \A m \in OtherLines : i <= m])
        /\ Len(repo.branchList) = 1 => findParentBranch(repo) = <<>>
        /\ Len(repo.branchList) = 2 => OtherBranches = {findParentBranch(repo)}
        /\ (BaseDone /\ baseFlag = <<>> /\ Len(repo.branchList) >= 2)
              => baseBranch = findParentBranch(repo)

\* C36 witness: on feat, listed after main and develop, the parent is develop
C36_Witness ==
    /\ BaseDone
    /\ baseFlag = <<>>
    /\ ~repo.showBranchFails
    /\ repo.branchList = <<Main, Develop, Feature>>
    /\ repo.current = Feature
    /\ findParentBranch(repo) = Develop
    /\ baseBranch = Develop

====
